---- MODULE Spec2Model ----
(***************************************************************************)
(* A model of the Pomelo/nano client Connector of connector.go: the        *)
(* caller's API (Request, Notify, On, Connected, Close), the blocking Run  *)
(* call with its read/dispatch loop, the writer goroutine and the          *)
(* heartbeat goroutines, with the channels chSend and die between them.    *)
(***************************************************************************)
EXTENDS Integers, Sequences, FiniteSets, TLC

\* ------------------------------------------------------------------ bounds
MaxCalls == 2       \* Request/Notify calls the caller makes
MaxIn == 2          \* packets the peer sends in all
MaxTicks == 1       \* heartbeat frames enqueued by the ticker goroutines
SendCap == 2        \* capacity of the chSend channel
InitMid == 0        \* the id of the first Request

\* ------------------------------------------------------------------ values
Callers == {1, 2}   \* application threads; thread 0 is the one blocked in Run
RunT == 0
Threads == Callers \cup {RunT}

NilCb == 0          \* a nil Callback
PushCb == 100       \* the handler registered with On
Payloads == {"d1", "d2"}

EmptyMap == [x \in {} |-> 0]
MapPut(f, k, v) == [x \in DOMAIN f \cup {k} |-> IF x = k THEN v ELSE f[x]]
MapDel(f, k) == [x \in DOMAIN f \ {k} |-> f[x]]

\* An inbound packet as the codec hands it to processPacket, with the fields
\* json.Unmarshal / message.Decode extract from its payload.
Pkt(t, wf, code, hbt, mt, id, route, data) ==
    [type |-> t, wellformed |-> wf, code |-> code, heartbeat |-> hbt,
     mtype |-> mt, id |-> id, route |-> route, data |-> data]
HandshakePkt(code, hbt) == Pkt("Handshake", TRUE, code, hbt, "-", 0, "-", "-")
BadHandshakePkt == Pkt("Handshake", FALSE, 0, 0, "-", 0, "-", "-")
KickPkt == Pkt("Kick", TRUE, 0, 0, "-", 0, "-", "-")
HeartbeatPkt == Pkt("Heartbeat", TRUE, 0, 0, "-", 0, "-", "-")
ResponsePkt(id, d) == Pkt("Data", TRUE, 0, 0, "Response", id, "-", d)
PushPkt(route, d) == Pkt("Data", TRUE, 0, 0, "Push", 0, route, d)
BadDataPkt == Pkt("Data", FALSE, 0, 0, "-", 0, "-", "-")

\* What the peer may send.
HandshakePackets ==
    {HandshakePkt(200, 3), HandshakePkt(200, 0), HandshakePkt(200, -1),
     HandshakePkt(500, 3), BadHandshakePkt}
DataPackets ==
    {BadDataPkt, PushPkt("onMembers", "d1"), PushPkt("onOther", "d1")}
    \cup {ResponsePkt(i, d) : i \in InitMid .. (InitMid + MaxCalls - 1), d \in Payloads}
OtherPackets == {HeartbeatPkt}

\* An outbound frame as it sits on chSend.
Frame(t, mt, id) == [type |-> t, mtype |-> mt, id |-> id]
HandshakeFrame == Frame("Handshake", "-", 0)
HandshakeAckFrame == Frame("HandshakeAck", "-", 0)
HeartbeatFrame == Frame("Heartbeat", "-", 0)

VARIABLES
    exit,               \* "running", or why the host process ended
    conn,               \* c.conn: "nil", "open", "closed"
    connecting,         \* c.connecting
    mid,                \* c.mid
    responses,          \* c.responses: id -> callback
    events,             \* c.events: route -> callback
    chSend,             \* c.chSend
    handshakeData,      \* c.handshakeData: "nil" or "set"
    connectedCallback,  \* c.connectedCallback: "nil" or "set"
    writer,             \* the write goroutine: "off", "run", "done"
    hb,                 \* the heartbeat goroutines: how many are at each place
    pc,                 \* where each thread is
    ret,                \* where the Run thread continues after its c.Close()
    pending,            \* how many packets of the current read are not yet processed
    frame,              \* per caller: the payload send() is about to enqueue
    cbk,                \* per caller: the callback of the Request in progress
    runErr,             \* what Run returned ("none" while it has not)
    \* history
    calls,              \* the callbacks invoked: <<callback, payload>>
    reqs,               \* per Request call (named by its callback): the id
                        \* it took, how far it got, the payloads of the
                        \* Responses with that id processed while the call was
                        \* registered or sent, and how many came after it failed
    ncalls,             \* Request/Notify calls begun
    nNotifyOk,          \* Notify calls that were enqueued
    hbEnq,              \* heartbeat frames enqueued
    ackEnq,             \* handshake-ack frames enqueued
    connectedCalls,     \* invocations of the connected callback
    hs200,              \* handshake responses with code 200 processed
    kicked,             \* a Kick frame was processed
    badCode,            \* a handshake response with code # 200 was processed
    explicitClose,      \* the caller's Close() went past its guard
    ioErr,              \* the transport failed a read of its own
    protoErr,           \* a malformed handshake response was processed
    dieSends,           \* Close() calls that went on to signal die
    nread,              \* packets read
    enq,                \* frames enqueued on chSend
    wrote               \* frames the writer has taken from chSend

vars == <<exit, conn, connecting, mid, responses, events, chSend,
          handshakeData, connectedCallback, writer, hb, pc, ret, pending,
          frame, cbk, runErr, calls, reqs, ncalls, nNotifyOk, hbEnq,
          ackEnq, connectedCalls, hs200, kicked, badCode, explicitClose,
          ioErr, protoErr, dieSends, nread, enq,
          wrote>>

progVars == <<conn, connecting, mid, responses, events, chSend,
              handshakeData, connectedCallback, writer, hb, ret, pending,
              frame, cbk, runErr>>
histVars == <<calls, reqs, ncalls, nNotifyOk, hbEnq, ackEnq,
              connectedCalls, hs200, kicked, badCode, explicitClose, ioErr,
              protoErr, dieSends, nread, enq,
              wrote>>

HbPlaces == {"start", "startbad", "wait", "send", "done"}

Init ==
    /\ exit = "running"
    /\ conn = "nil"
    /\ connecting = FALSE
    /\ mid = InitMid
    /\ responses = EmptyMap
    /\ events = EmptyMap
    /\ chSend = <<>>
    /\ handshakeData = "nil"
    /\ connectedCallback = "nil"
    /\ writer = "off"
    /\ hb = [p \in HbPlaces |-> 0]
    /\ pc = [t \in Threads |-> "idle"]
    /\ ret = "return"
    /\ pending = 0
    /\ frame = [t \in Callers |-> HandshakeFrame]
    /\ cbk = [t \in Callers |-> NilCb]
    /\ runErr = "none"
    /\ calls = <<>>
    /\ reqs = EmptyMap
    /\ ncalls = 0
    /\ nNotifyOk = 0
    /\ hbEnq = 0
    /\ ackEnq = 0
    /\ connectedCalls = 0
    /\ hs200 = 0
    /\ kicked = FALSE
    /\ badCode = FALSE
    /\ explicitClose = FALSE
    /\ ioErr = FALSE
    /\ protoErr = FALSE
    /\ dieSends = 0
    /\ nread = 0
    /\ enq = 0
    /\ wrote = 0

\* ----------------------------------------------------------- small helpers
IsClosed == ~connecting

responseHandler(m) == IF m \in DOMAIN responses THEN responses[m] ELSE NilCb
eventHandler(r) == IF r \in DOMAIN events THEN events[r] ELSE NilCb

\* Mutant: a nil callback is ignored instead of deleting the entry.
setResponseHandlerNoDelete(reg, m, cb) ==
    IF cb = NilCb THEN reg ELSE MapPut(reg, m, cb)

setResponseHandler(reg, m, cb) ==
    IF cb = NilCb THEN MapDel(reg, m) ELSE MapPut(reg, m, cb)

\* Mutant: c.mid++ before the encodings, so also when they fail.
sendMessageMidEager(m, encoded) == m + 1

\* c.mid after sendMessage: the increment follows both encodings.
sendMessageMid(m, encoded) == IF encoded THEN m + 1 ELSE m

\* send(): chSend <- data blocks while the channel is full.
CanSend == Len(chSend) < SendCap

\* chSend <- data: the frame joins the end of the queue; seq numbers the
\* frames in the order they were enqueued.
Enqueue(q, f) ==
    Append(q, [type |-> f.type, mtype |-> f.mtype, id |-> f.id, seq |-> enq])

Running == exit = "running"

\* ------------------------------------------------------- the caller's API
SetHandshake(t) ==
    /\ Running /\ pc[t] = "idle"
    /\ pc[RunT] = "idle"
    /\ \E ok \in BOOLEAN :
          handshakeData' = IF ok THEN "set" ELSE handshakeData
    /\ UNCHANGED <<exit, conn, connecting, mid, responses, events, chSend,
                   connectedCallback, writer, hb, pc, ret, pending, frame, cbk,
                   runErr>>
    /\ UNCHANGED histVars

Connected(t) ==
    /\ Running /\ pc[t] = "idle"
    /\ pc[RunT] = "idle"
    /\ connectedCallback' = "set"
    /\ UNCHANGED <<exit, conn, connecting, mid, responses, events, chSend,
                   handshakeData, writer, hb, pc, ret, pending, frame, cbk,
                   runErr>>
    /\ UNCHANGED histVars

On(t) ==
    /\ Running /\ pc[t] = "idle"
    /\ events' = MapPut(events, "onMembers", PushCb)
    /\ UNCHANGED <<exit, conn, connecting, mid, responses, chSend,
                   handshakeData, connectedCallback, writer, hb, pc, ret,
                   pending, frame, cbk, runErr>>
    /\ UNCHANGED histVars

\* Request, up to the call of sendMessage: the message takes c.mid as its id
\* and the callback is registered under c.mid.
RequestRegister(t) ==
    /\ Running /\ pc[t] = "idle"
    /\ ncalls < MaxCalls
    /\ LET cb == ncalls + 1 IN
          /\ responses' = setResponseHandler(responses, mid, cb)
          /\ cbk' = [cbk EXCEPT ![t] = cb]
          /\ frame' = [frame EXCEPT ![t] = Frame("Data", "Request", mid)]
          /\ reqs' = MapPut(reqs, cb, [id |-> mid, st |-> "registered",
                                      got |-> <<>>, late |-> 0])
    /\ ncalls' = ncalls + 1
    /\ pc' = [pc EXCEPT ![t] = "req_encode"]
    /\ UNCHANGED <<exit, conn, connecting, mid, events, chSend,
                   handshakeData, connectedCallback, writer, hb, ret, pending,
                   runErr>>
    /\ UNCHANGED <<calls, nNotifyOk, hbEnq, ackEnq, connectedCalls,
                   hs200, kicked, badCode, explicitClose, ioErr, protoErr,
                   dieSends, nread>>
    /\ UNCHANGED <<enq, wrote>>

\* sendMessage inside Request: msg.Encode and codec.Encode succeed or fail; on
\* failure Request unregisters c.mid and returns the error.
RequestEncode(t) ==
    /\ Running /\ pc[t] = "req_encode"
    /\ \E encoded \in BOOLEAN :
          /\ mid' = sendMessageMid(mid, encoded)
          /\ IF encoded
                THEN /\ pc' = [pc EXCEPT ![t] = "send"]
                     /\ reqs' = [reqs EXCEPT ![cbk[t]].st = "encoded"]
                     /\ UNCHANGED responses
                ELSE /\ responses' = setResponseHandler(responses, mid', NilCb)
                     /\ reqs' = [reqs EXCEPT ![cbk[t]].st = "failed"]
                     /\ pc' = [pc EXCEPT ![t] = "idle"]
    /\ UNCHANGED <<exit, conn, connecting, events, chSend, handshakeData,
                   connectedCallback, writer, hb, ret, pending, frame, cbk,
                   runErr>>
    /\ UNCHANGED <<calls, ncalls, nNotifyOk, hbEnq, ackEnq,
                   connectedCalls, hs200, kicked, badCode, explicitClose,
                   ioErr, protoErr, dieSends, nread>>
    /\ UNCHANGED <<enq, wrote>>

\* Notify: sendMessage with a message that has no id and no callback.
Notify(t) ==
    /\ Running /\ pc[t] = "idle"
    /\ ncalls < MaxCalls
    /\ ncalls' = ncalls + 1
    /\ \E encoded \in BOOLEAN :
          /\ mid' = sendMessageMid(mid, encoded)
          /\ IF encoded
                THEN /\ pc' = [pc EXCEPT ![t] = "send"]
                     /\ frame' = [frame EXCEPT ![t] = Frame("Data", "Notify", 0)]
                     /\ nNotifyOk' = nNotifyOk + 1
                ELSE UNCHANGED <<pc, frame, nNotifyOk>>
    /\ UNCHANGED <<exit, conn, connecting, responses, events, chSend,
                   handshakeData, connectedCallback, writer, hb, ret, pending,
                   cbk, runErr>>
    /\ UNCHANGED <<calls, reqs, hbEnq, ackEnq, connectedCalls, hs200,
                   kicked, badCode, explicitClose, ioErr, protoErr, dieSends,
                   nread>>
    /\ UNCHANGED <<enq, wrote>>

\* c.send(payload) at the end of sendMessage; Request/Notify then return nil.
SendPayload(t) ==
    /\ Running /\ pc[t] = "send"
    /\ CanSend
    /\ chSend' = Enqueue(chSend, frame[t])
    /\ enq' = enq + 1
    /\ reqs' = IF frame[t].mtype = "Request"
                  THEN [reqs EXCEPT ![cbk[t]].st = "sent"]
                  ELSE reqs
    /\ pc' = [pc EXCEPT ![t] = "idle"]
    /\ UNCHANGED <<exit, conn, connecting, mid, responses, events,
                   handshakeData, connectedCallback, writer, hb, ret, pending,
                   frame, cbk, runErr>>
    /\ UNCHANGED <<calls, ncalls, nNotifyOk, hbEnq, ackEnq,
                   connectedCalls, hs200, kicked, badCode, explicitClose,
                   ioErr, protoErr, dieSends, nread>>
    /\ UNCHANGED wrote

\* ------------------------------------------------------------------ Close
\* Where processPacket goes on after a packet: the next packet of the chunk,
\* or the top of read's loop.
NextPc(rest) == IF rest = 0 THEN "loop" ELSE "process"

\* Mutant: Close() without its guard.
CloseBeginNoGuard(t) ==
    /\ Running /\ pc[t] = "idle"
    /\ conn' = "closed"
    /\ pc' = [pc EXCEPT ![t] = "close_signal"]
    /\ explicitClose' = TRUE
    /\ dieSends' = dieSends + 1
    /\ UNCHANGED <<exit, connecting, mid, responses, events, chSend,
                   handshakeData, connectedCallback, writer, hb, ret, pending,
                   frame, cbk, runErr>>
    /\ UNCHANGED <<calls, reqs, ncalls, nNotifyOk, hbEnq, ackEnq,
                   connectedCalls, hs200, kicked, badCode, ioErr, protoErr,
                   nread, enq, wrote>>

\* Close() called by the application: the guard, then c.conn.Close().
CloseBegin(t) ==
    /\ Running /\ pc[t] = "idle"
    /\ IF ~connecting
          THEN /\ pc' = [pc EXCEPT ![t] = "close_return"]
               /\ UNCHANGED <<conn, explicitClose, dieSends>>
          ELSE /\ conn' = "closed"
               /\ pc' = [pc EXCEPT ![t] = "close_signal"]
               /\ explicitClose' = TRUE
               /\ dieSends' = dieSends + 1
    /\ UNCHANGED <<exit, connecting, mid, responses, events, chSend,
                   handshakeData, connectedCallback, writer, hb, ret, pending,
                   frame, cbk, runErr>>
    /\ UNCHANGED <<calls, reqs, ncalls, nNotifyOk, hbEnq, ackEnq,
                   connectedCalls, hs200, kicked, badCode, ioErr, protoErr,
                   nread>>
    /\ UNCHANGED <<enq, wrote>>

\* if !c.connecting { return }: Close() returns to the application.
CloseReturn(t) ==
    /\ Running /\ pc[t] = "close_return"
    /\ pc' = [pc EXCEPT ![t] = "idle"]
    /\ UNCHANGED <<exit, conn, connecting, mid, responses, events, chSend,
                   handshakeData, connectedCallback, writer, hb, ret, pending,
                   frame, cbk, runErr>>
    /\ UNCHANGED histVars

\* c.die <- 1 in Close(): die is unbuffered, so the send completes only
\* together with the writer's <-c.die, on which the writer returns.
CloseSignal(t) ==
    /\ Running /\ pc[t] = "close_signal"
    /\ writer = "run"
    /\ writer' = "done"
    /\ pc' = [pc EXCEPT ![t] = "close_flag"]
    /\ UNCHANGED <<exit, conn, connecting, mid, responses, events, chSend,
                   handshakeData, connectedCallback, hb, ret, pending, frame,
                   cbk, runErr>>
    /\ UNCHANGED histVars

\* c.connecting = false, and Close() returns: to the application, to read
\* (which returns the read error) or to processPacket.
CloseFlag(t) ==
    /\ Running /\ pc[t] = "close_flag"
    /\ connecting' = FALSE
    /\ IF t = RunT /\ ret = "return"
          THEN /\ pc' = [pc EXCEPT ![t] = "returned"]
               /\ runErr' = "ErrRead"
          ELSE /\ pc' = [pc EXCEPT ![t] = IF t = RunT THEN NextPc(pending) ELSE "idle"]
               /\ UNCHANGED runErr
    /\ UNCHANGED <<exit, conn, mid, responses, events, chSend, handshakeData,
                   connectedCallback, writer, hb, ret, pending, frame, cbk>>
    /\ UNCHANGED histVars

\* -------------------------------------------------------------------- Run
\* Mutant: Run dials without looking at c.handshakeData.
RunStartNoCheck ==
    /\ Running /\ pc[RunT] = "idle"
    /\ conn' = "open"
    /\ connecting' = TRUE
    /\ writer' = "run"
    /\ pc' = [pc EXCEPT ![RunT] = "send_handshake"]
    /\ UNCHANGED <<exit, mid, responses, events, chSend, handshakeData,
                   connectedCallback, hb, ret, pending, frame, cbk, runErr>>
    /\ UNCHANGED histVars

\* Run up to go c.write(): the handshake must be configured, then the dial.
RunStart ==
    /\ Running /\ pc[RunT] = "idle"
    /\ IF handshakeData = "nil"
          THEN /\ runErr' = "ErrHandshakeNotDefined"
               /\ pc' = [pc EXCEPT ![RunT] = "returned"]
               /\ UNCHANGED <<conn, connecting, writer>>
          ELSE \E dialed \in BOOLEAN :
                  IF dialed
                     THEN /\ conn' = "open"
                          /\ connecting' = TRUE
                          /\ writer' = "run"
                          /\ pc' = [pc EXCEPT ![RunT] = "send_handshake"]
                          /\ UNCHANGED runErr
                     ELSE /\ runErr' = "ErrDial"
                          /\ pc' = [pc EXCEPT ![RunT] = "returned"]
                          /\ UNCHANGED <<conn, connecting, writer>>
    /\ UNCHANGED <<exit, mid, responses, events, chSend, handshakeData,
                   connectedCallback, hb, ret, pending, frame, cbk>>
    /\ UNCHANGED histVars

\* c.send(c.handshakeData)
RunSendHandshake ==
    /\ Running /\ pc[RunT] = "send_handshake"
    /\ CanSend
    /\ chSend' = Enqueue(chSend, HandshakeFrame)
    /\ enq' = enq + 1
    /\ pc' = [pc EXCEPT ![RunT] = "loop"]
    /\ UNCHANGED <<exit, conn, connecting, mid, responses, events,
                   handshakeData, connectedCallback, writer, hb, ret, pending,
                   frame, cbk, runErr>>
    /\ UNCHANGED <<calls, reqs, ncalls, nNotifyOk, hbEnq, ackEnq,
                   connectedCalls, hs200, kicked, badCode, explicitClose,
                   ioErr, protoErr, dieSends, nread, wrote>>

\* Mutant: read returns nil when it finds the connector closed.
readClosedNil == "nil"

\* What read returns when it finds the connector closed at the top of its loop.
readClosedErr == "ErrClosed"

\* The top of read's loop: the sleep, then the IsClosed check.
ReadLoopTop ==
    /\ Running /\ pc[RunT] = "loop"
    /\ IF IsClosed
          THEN /\ runErr' = readClosedErr
               /\ pc' = [pc EXCEPT ![RunT] = "returned"]
          ELSE /\ pc' = [pc EXCEPT ![RunT] = "read"]
               /\ UNCHANGED runErr
    /\ UNCHANGED <<exit, conn, connecting, mid, responses, events, chSend,
                   handshakeData, connectedCallback, writer, hb, ret, pending,
                   frame, cbk>>
    /\ UNCHANGED histVars

\* c.conn.Read returns bytes that decode to one or more packets.
ReadChunk ==
    /\ Running /\ pc[RunT] = "read"
    /\ conn = "open"
    /\ \E n \in 1 .. (MaxIn - nread) :
          /\ pending' = n
          /\ nread' = nread + n
    /\ pc' = [pc EXCEPT ![RunT] = "process"]
    /\ UNCHANGED <<exit, conn, connecting, mid, responses, events, chSend,
                   handshakeData, connectedCallback, writer, hb, ret, frame,
                   cbk, runErr>>
    /\ UNCHANGED <<calls, reqs, ncalls, nNotifyOk, hbEnq, ackEnq,
                   connectedCalls, hs200, kicked, badCode, explicitClose,
                   ioErr, protoErr, dieSends>>
    /\ UNCHANGED <<enq, wrote>>

\* c.conn.Read returns bytes the codec cannot decode, or no complete packet:
\* read logs and continues.
ReadUndecodable ==
    /\ Running /\ pc[RunT] = "read"
    /\ conn = "open"
    /\ pc' = [pc EXCEPT ![RunT] = "loop"]
    /\ UNCHANGED <<exit, conn, connecting, mid, responses, events, chSend,
                   handshakeData, connectedCallback, writer, hb, ret, pending,
                   frame, cbk, runErr>>
    /\ UNCHANGED histVars

\* Mutant: a failed read is logged and the loop continues.
ReadErrorContinue ==
    /\ Running /\ pc[RunT] = "read"
    /\ ioErr' = (ioErr \/ conn = "open")
    /\ pc' = [pc EXCEPT ![RunT] = "loop"]
    /\ UNCHANGED progVars
    /\ UNCHANGED exit
    /\ UNCHANGED <<calls, reqs, ncalls, nNotifyOk, hbEnq, ackEnq,
                   connectedCalls, hs200, kicked, badCode, explicitClose,
                   protoErr, dieSends, nread>>
    /\ UNCHANGED <<enq, wrote>>

\* c.conn.Read fails, because the transport failed or because Close() closed
\* it: read calls c.Close() and returns the error.
ReadError ==
    /\ Running /\ pc[RunT] = "read"
    /\ ioErr' = (ioErr \/ conn = "open")
    /\ IF ~connecting
          THEN /\ runErr' = "ErrRead"
               /\ pc' = [pc EXCEPT ![RunT] = "returned"]
               /\ UNCHANGED <<conn, ret, dieSends>>
          ELSE /\ conn' = "closed"
               /\ dieSends' = dieSends + 1
               /\ ret' = "return"
               /\ pc' = [pc EXCEPT ![RunT] = "close_signal"]
               /\ UNCHANGED runErr
    /\ UNCHANGED <<exit, connecting, mid, responses, events, chSend,
                   handshakeData, connectedCallback, writer, hb, pending,
                   frame, cbk>>
    /\ UNCHANGED <<calls, reqs, ncalls, nNotifyOk, hbEnq, ackEnq,
                   connectedCalls, hs200, kicked, badCode, explicitClose,
                   protoErr, nread>>
    /\ UNCHANGED <<enq, wrote>>

\* ----------------------------------------------------------- processPacket
OnPacket == Running /\ pc[RunT] = "process" /\ pending > 0

\* case packet.Handshake, the payload does not unmarshal: c.Close(); return.
ProcessBadHandshake ==
    /\ OnPacket
    /\ \E p \in HandshakePackets : ~p.wellformed
    /\ pending' = pending - 1
    /\ protoErr' = TRUE
    /\ IF ~connecting
          THEN /\ pc' = [pc EXCEPT ![RunT] = NextPc(pending')]
               /\ UNCHANGED <<conn, ret, dieSends>>
          ELSE /\ conn' = "closed"
               /\ dieSends' = dieSends + 1
               /\ ret' = "process"
               /\ pc' = [pc EXCEPT ![RunT] = "close_signal"]
    /\ UNCHANGED <<exit, connecting, mid, responses, events, chSend,
                   handshakeData, connectedCallback, writer, hb, frame, cbk,
                   runErr>>
    /\ UNCHANGED <<calls, reqs, ncalls, nNotifyOk, hbEnq, ackEnq,
                   connectedCalls, hs200, kicked, badCode, explicitClose,
                   ioErr, nread>>
    /\ UNCHANGED <<enq, wrote>>

\* case packet.Handshake, code 200: the go statement that starts the
\* heartbeat goroutine; time.NewTicker panics there on an interval <= 0.
ProcessHandshake200 ==
    /\ OnPacket
    /\ \E p \in HandshakePackets :
          /\ p.wellformed /\ p.code = 200
          /\ hb' = IF p.heartbeat > 0
                       THEN [hb EXCEPT !["start"] = @ + 1]
                       ELSE [hb EXCEPT !["startbad"] = @ + 1]
    /\ pending' = pending - 1
    /\ hs200' = hs200 + 1
    /\ pc' = [pc EXCEPT ![RunT] = "send_ack"]
    /\ UNCHANGED <<exit, conn, connecting, mid, responses, events, chSend,
                   handshakeData, connectedCallback, writer, ret, frame, cbk,
                   runErr>>
    /\ UNCHANGED <<calls, reqs, ncalls, nNotifyOk, hbEnq, ackEnq,
                   connectedCalls, kicked, badCode, explicitClose, ioErr,
                   protoErr, dieSends, nread>>
    /\ UNCHANGED <<enq, wrote>>

\* How many times the connected callback has run after one more code 200.
connectedAfter200(n) == IF connectedCallback # "nil" THEN n + 1 ELSE n

\* ... code 200, continued: c.send(c.handshakeAckData), then the connected
\* callback if one is set.
ProcessHandshakeAck ==
    /\ Running /\ pc[RunT] = "send_ack"
    /\ CanSend
    /\ chSend' = Enqueue(chSend, HandshakeAckFrame)
    /\ enq' = enq + 1
    /\ ackEnq' = ackEnq + 1
    /\ connectedCalls' = connectedAfter200(connectedCalls)
    /\ pc' = [pc EXCEPT ![RunT] = NextPc(pending)]
    /\ UNCHANGED <<exit, conn, connecting, mid, responses, events,
                   handshakeData, connectedCallback, writer, hb, ret, pending,
                   frame, cbk, runErr>>
    /\ UNCHANGED <<calls, reqs, ncalls, nNotifyOk, hbEnq, hs200, kicked,
                   badCode, explicitClose, ioErr, protoErr, dieSends, nread>>
    /\ UNCHANGED wrote

\* case packet.Handshake, code # 200: log.Fatal ends the process; the
\* c.Close() after it is never reached.
ProcessHandshakeRefused ==
    /\ OnPacket
    /\ \E p \in HandshakePackets : p.wellformed /\ p.code # 200
    /\ exit' = "log.Fatal"
    /\ badCode' = TRUE
    /\ UNCHANGED progVars
    /\ UNCHANGED pc
    /\ UNCHANGED <<calls, reqs, ncalls, nNotifyOk, hbEnq, ackEnq,
                   connectedCalls, hs200, kicked, explicitClose, ioErr,
                   protoErr, dieSends, nread>>
    /\ UNCHANGED <<enq, wrote>>

\* case packet.Kick: log.Fatal ends the process; the c.Close() after it is
\* never reached.
ProcessKick ==
    /\ OnPacket
    /\ \E p \in OtherPackets \cup {KickPkt} : p.type = "Kick"
    /\ exit' = "log.Fatal"
    /\ kicked' = TRUE
    /\ UNCHANGED progVars
    /\ UNCHANGED pc
    /\ UNCHANGED <<calls, reqs, ncalls, nNotifyOk, hbEnq, ackEnq,
                   connectedCalls, hs200, badCode, explicitClose, ioErr,
                   protoErr, dieSends, nread>>
    /\ UNCHANGED <<enq, wrote>>

\* Mutant: the entry stays after its callback has run.
responsesAfterKeep(reg, m) == reg

\* processMessage, case message.Response: the registry after the message.
responsesAfter(reg, m) ==
    IF m \in DOMAIN reg THEN setResponseHandler(reg, m, NilCb) ELSE reg

\* Mutant: a Push is handed to the On handler whatever its route.
invokedAnyRoute(p) ==
    CASE p.mtype = "Push" -> <<<<PushCb, p.data>>>>
      [] p.mtype = "Response" ->
            IF responseHandler(p.id) # NilCb
               THEN <<<<responseHandler(p.id), p.data>>>> ELSE <<>>
      [] OTHER -> <<>>

\* processMessage: the callbacks invoked for message p, in order.
invoked(p) ==
    CASE p.mtype = "Push" ->
            IF eventHandler(p.route) # NilCb
               THEN <<<<eventHandler(p.route), p.data>>>> ELSE <<>>
      [] p.mtype = "Response" ->
            IF responseHandler(p.id) # NilCb
               THEN <<<<responseHandler(p.id), p.data>>>> ELSE <<>>
      [] OTHER -> <<>>

\* History: a Response with id p.id was processed.
noteResponse(p) ==
    [k \in DOMAIN reqs |->
        IF p.wellformed /\ p.mtype = "Response" /\ reqs[k].id = p.id
           THEN IF reqs[k].st = "failed"
                   THEN [reqs[k] EXCEPT !.late = @ + 1]
                   ELSE [reqs[k] EXCEPT !.got = Append(@, p.data)]
           ELSE reqs[k]]

\* processMessage: message p finds no handler ("... handler not found").
unmatched(p) ==
    \/ p.mtype = "Push" /\ p.route \notin DOMAIN events
    \/ p.mtype = "Response" /\ p.id \notin DOMAIN responses

\* case packet.Data, for packet p: message.Decode, then processMessage; a
\* payload that does not decode is skipped.
ProcessDataOf(p) ==
    /\ OnPacket
    /\ pending' = pending - 1
    /\ pc' = [pc EXCEPT ![RunT] = NextPc(pending')]
    /\ reqs' = noteResponse(p)
    /\ IF p.wellformed
          THEN /\ calls' = calls \o invoked(p)
               /\ responses' = IF p.mtype = "Response"
                                  THEN responsesAfter(responses, p.id)
                                  ELSE responses
          ELSE UNCHANGED <<calls, responses>>
    /\ UNCHANGED <<exit, conn, connecting, mid, events, chSend, handshakeData,
                   connectedCallback, writer, hb, ret, frame, cbk, runErr>>
    /\ UNCHANGED <<ncalls, nNotifyOk, hbEnq, ackEnq,
                   connectedCalls, hs200, kicked, badCode, explicitClose,
                   ioErr, protoErr, dieSends, nread>>
    /\ UNCHANGED <<enq, wrote>>

\* case packet.Data, whatever Data packet the peer sent.
ProcessData == \E p \in DataPackets : ProcessDataOf(p)

\* Any other packet type falls through the switch.
ProcessOther ==
    /\ OnPacket
    /\ \E p \in OtherPackets : p.type \notin {"Handshake", "Data", "Kick"}
    /\ pending' = pending - 1
    /\ pc' = [pc EXCEPT ![RunT] = NextPc(pending')]
    /\ UNCHANGED <<exit, conn, connecting, mid, responses, events, chSend,
                   handshakeData, connectedCallback, writer, hb, ret, frame,
                   cbk, runErr>>
    /\ UNCHANGED histVars

\* ----------------------------------------------------------------- write
\* Mutant: the writer takes the frame enqueued last.
WriterWriteLast ==
    /\ Running /\ writer = "run"
    /\ chSend # <<>>
    /\ chSend' = SubSeq(chSend, 1, Len(chSend) - 1)
    /\ wrote' = wrote + 1
    /\ UNCHANGED <<exit, conn, connecting, mid, responses, events,
                   handshakeData, connectedCallback, writer, hb, pc, ret,
                   pending, frame, cbk, runErr>>
    /\ UNCHANGED <<calls, reqs, ncalls, nNotifyOk, hbEnq, ackEnq,
                   connectedCalls, hs200, kicked, badCode, explicitClose,
                   ioErr, protoErr, dieSends, nread, enq>>

\* case data := <-c.chSend: c.conn.Write(data), which fails on a transport
\* that Close() has closed; a failed write is logged and the loop goes on.
WriterWrite ==
    /\ Running /\ writer = "run"
    /\ chSend # <<>>
    /\ chSend' = Tail(chSend)
    /\ wrote' = wrote + 1
    /\ UNCHANGED <<exit, conn, connecting, mid, responses, events,
                   handshakeData, connectedCallback, writer, hb, pc, ret,
                   pending, frame, cbk, runErr>>
    /\ UNCHANGED <<calls, reqs, ncalls, nNotifyOk, hbEnq, ackEnq,
                   connectedCalls, hs200, kicked, badCode, explicitClose,
                   ioErr, protoErr, dieSends, nread>>
    /\ UNCHANGED enq

\* ------------------------------------------------- the heartbeat goroutine
\* time.NewTicker with a positive interval.
HeartbeatStart ==
    /\ Running /\ hb["start"] > 0
    /\ hb' = [hb EXCEPT !["start"] = @ - 1, !["wait"] = @ + 1]
    /\ UNCHANGED <<exit, conn, connecting, mid, responses, events, chSend,
                   handshakeData, connectedCallback, writer, pc, ret, pending,
                   frame, cbk, runErr>>
    /\ UNCHANGED histVars

\* time.NewTicker with an interval <= 0 panics; nothing recovers it.
HeartbeatPanic ==
    /\ Running /\ hb["startbad"] > 0
    /\ exit' = "panic"
    /\ UNCHANGED progVars
    /\ UNCHANGED pc
    /\ UNCHANGED histVars

\* A tick: if c.IsClosed() { return }
HeartbeatTick ==
    /\ Running /\ hb["wait"] > 0
    /\ hbEnq + hb["send"] < MaxTicks \/ IsClosed
    /\ hb' = IF IsClosed
                THEN [hb EXCEPT !["wait"] = @ - 1, !["done"] = @ + 1]
                ELSE [hb EXCEPT !["wait"] = @ - 1, !["send"] = @ + 1]
    /\ UNCHANGED <<exit, conn, connecting, mid, responses, events, chSend,
                   handshakeData, connectedCallback, writer, pc, ret, pending,
                   frame, cbk, runErr>>
    /\ UNCHANGED histVars

\* ... c.send(c.heartbeatData)
HeartbeatSend ==
    /\ Running /\ hb["send"] > 0
    /\ CanSend
    /\ chSend' = Enqueue(chSend, HeartbeatFrame)
    /\ enq' = enq + 1
    /\ hbEnq' = hbEnq + 1
    /\ hb' = [hb EXCEPT !["send"] = @ - 1, !["wait"] = @ + 1]
    /\ UNCHANGED <<exit, conn, connecting, mid, responses, events,
                   handshakeData, connectedCallback, writer, pc, ret, pending,
                   frame, cbk, runErr>>
    /\ UNCHANGED <<calls, reqs, ncalls, nNotifyOk, ackEnq,
                   connectedCalls, hs200, kicked, badCode, explicitClose,
                   ioErr, protoErr, dieSends, nread>>
    /\ UNCHANGED wrote

\* ------------------------------------------------------- the specification
Api(t) ==
    \/ SetHandshake(t)
    \/ Connected(t)
    \/ On(t)
    \/ RequestRegister(t)
    \/ RequestEncode(t)
    \/ Notify(t)
    \/ SendPayload(t)
    \/ CloseBegin(t)

RunThread ==
    \/ RunStart
    \/ RunSendHandshake
    \/ ReadLoopTop
    \/ ReadChunk
    \/ ReadUndecodable
    \/ ReadError
    \/ ProcessBadHandshake
    \/ ProcessHandshake200
    \/ ProcessHandshakeAck
    \/ ProcessHandshakeRefused
    \/ ProcessKick
    \/ ProcessData
    \/ ProcessOther

Goroutines ==
    \/ WriterWrite
    \/ HeartbeatStart
    \/ HeartbeatPanic
    \/ HeartbeatTick
    \/ HeartbeatSend

\* One application thread uses the Connector while another is blocked in Run.
Next ==
    \/ Api(1)
    \/ CloseReturn(1) \/ CloseSignal(1) \/ CloseFlag(1)
    \/ CloseSignal(RunT) \/ CloseFlag(RunT)
    \/ RunThread
    \/ Goroutines

Spec == Init /\ [][Next]_vars

\* The same threads with a peer that sends nothing but Data packets: no
\* handshake response, so no heartbeat goroutine, no use of the connected
\* callback, and no Kick.
NextData ==
    \/ SetHandshake(1)
    \/ On(1)
    \/ RequestRegister(1)
    \/ RequestEncode(1)
    \/ Notify(1)
    \/ SendPayload(1)
    \/ CloseBegin(1)
    \/ CloseReturn(1) \/ CloseSignal(1) \/ CloseFlag(1)
    \/ CloseSignal(RunT) \/ CloseFlag(RunT)
    \/ RunStart
    \/ RunSendHandshake
    \/ ReadLoopTop
    \/ ReadChunk
    \/ ReadUndecodable
    \/ ReadError
    \/ ProcessData
    \/ WriterWrite

SpecData == Init /\ [][NextData]_vars

\* The same again with an application that only registers an event handler
\* and closes: the dispatch loop, the writer and Close().
NextTeardown ==
    \/ SetHandshake(1)
    \/ On(1)
    \/ CloseBegin(1)
    \/ CloseReturn(1) \/ CloseSignal(1) \/ CloseFlag(1)
    \/ CloseSignal(RunT) \/ CloseFlag(RunT)
    \/ RunStart
    \/ RunSendHandshake
    \/ ReadLoopTop
    \/ ReadChunk
    \/ ReadUndecodable
    \/ ReadError
    \/ ProcessData
    \/ WriterWrite

SpecTeardown == Init /\ [][NextTeardown]_vars

\* The goroutine blocked in Run is scheduled whenever it can take a step: a
\* Close() it has entered goes on when the writer takes the die signal.
FairSpecTeardown ==
    /\ SpecTeardown
    /\ WF_vars(CloseSignal(RunT))
    /\ WF_vars(CloseFlag(RunT))

\* Two application threads call Request and Notify on the same Connector
\* while a third is blocked in Run; nobody closes.
NextConcurrent ==
    \/ SetHandshake(1)
    \/ RequestRegister(1) \/ RequestEncode(1) \/ Notify(1) \/ SendPayload(1)
    \/ RequestRegister(2) \/ RequestEncode(2) \/ Notify(2) \/ SendPayload(2)
    \/ RunStart
    \/ RunSendHandshake
    \/ ReadLoopTop
    \/ ReadChunk
    \/ ProcessData
    \/ WriterWrite

SpecConcurrent == Init /\ [][NextConcurrent]_vars

\* Every producer of outbound frames (the handshake of Run, the handshake-ack,
\* the heartbeat goroutines, Request and Notify) with the writer; the peer
\* sends nothing but handshake responses with code 200, and the connection
\* ends by a failed read, the application never calling Close().
NextWriter ==
    \/ SetHandshake(1)
    \/ RequestRegister(1) \/ RequestEncode(1) \/ Notify(1) \/ SendPayload(1)
    \/ CloseSignal(RunT) \/ CloseFlag(RunT)
    \/ RunStart
    \/ RunSendHandshake
    \/ ReadLoopTop
    \/ ReadChunk
    \/ ReadError
    \/ ProcessHandshake200
    \/ ProcessHandshakeAck
    \/ WriterWrite
    \/ HeartbeatStart
    \/ HeartbeatPanic
    \/ HeartbeatTick
    \/ HeartbeatSend

SpecWriter == Init /\ [][NextWriter]_vars

\* The Go scheduler runs every goroutine that can take a step: the writer,
\* the heartbeat goroutines (whose tickers keep ticking) and the goroutine
\* in Run.
FairSpecWriter ==
    /\ SpecWriter
    /\ WF_vars(WriterWrite)
    /\ WF_vars(HeartbeatStart)
    /\ WF_vars(HeartbeatPanic)
    /\ WF_vars(HeartbeatTick)
    /\ WF_vars(HeartbeatSend)
    /\ WF_vars(CloseSignal(RunT))
    /\ WF_vars(CloseFlag(RunT))

\* ------------------------------------------------------------ properties
Range(f) == {f[x] : x \in DOMAIN f}
CallsOf(log, cb) == SelectSeq(log, LAMBDA c : c[1] = cb)
ClosedAfterOpen == conn = "closed" /\ ~connecting
HeartbeatTasks == hb["start"] + hb["startbad"] + hb["wait"] + hb["send"] + hb["done"]
Live(k) == reqs[k].st \in {"encoded", "sent"}

C2_KickClosesConnection ==
    kicked =>
        /\ exit = "running"
        /\ conn = "closed"
        /\ pc[RunT] = "returned" => runErr \notin {"none", "nil"}

\* C3 (as claimed): once a handshake response with code # 200 has been
\* processed the host process is still running and the transport is closed;
\* if no code 200 came before it, no heartbeat task exists and no
\* handshake-ack was enqueued.
C3_RefusedHandshakeClosesConnection ==
    badCode =>
        /\ exit = "running"
        /\ conn = "closed"
        /\ hs200 = 0 => (HeartbeatTasks = 0 /\ ackEnq = 0)

\* C4 (as claimed): when the application calls Close() and the only read
\* error is the one that Close() causes, at most one Close() goes on to
\* signal die and no Close() waits on die after the writer has returned.
C4_CloseFromTwoSources ==
    (explicitClose /\ ~ioErr /\ ~protoErr) =>
        /\ dieSends <= 1
        /\ \A t \in Threads : ~(pc[t] = "close_signal" /\ writer = "done")

\* C5 (as claimed): a heartbeat frame is enqueued only after a handshake
\* response with code 200 was processed and only while the connector is not
\* closed.
C5_HeartbeatOnlyWhileEstablished ==
    [][hbEnq' # hbEnq => (hs200 > 0 /\ ~IsClosed)]_vars

\* C6 (as claimed): the connected callback is invoked at most once.
C6_ConnectedAtMostOnce == connectedCalls <= 1

\* C7 (as claimed): when Run has returned after an explicit Close() with no
\* transport error, no protocol error and no Kick, it returned nil.
C7_RunReturnsNilOnCleanClose ==
    (pc[RunT] = "returned" /\ explicitClose /\ ~ioErr /\ ~protoErr /\ ~kicked)
        => runErr = "nil"

\* C7 (amended): Run never returns nil; after an explicit Close() with no
\* transport error, no protocol error and no Kick it returns the error
\* "connector is closed" or the read error of the closed transport.
C7_RunReturnsErrorOnCleanClose ==
    pc[RunT] = "returned" =>
        /\ runErr \in {"ErrHandshakeNotDefined", "ErrDial", "ErrClosed", "ErrRead"}
        /\ (explicitClose /\ ~ioErr /\ ~protoErr /\ ~kicked)
              => runErr \in {"ErrClosed", "ErrRead"}

\* Run returned "connector is closed" after a clean explicit Close().
C7_Witness ==
    /\ pc[RunT] = "returned" /\ runErr = "ErrClosed"
    /\ explicitClose /\ ~ioErr /\ ~protoErr /\ ~kicked
    /\ pc[1] = "idle"

\* C8: a Request whose encoding fails enqueues nothing and leaves the
\* registry as the call found it: registering overwrote no entry, failing
\* removes the call's own entry and touches no other; from then on the
\* call's callback is in no entry and no Response invokes it.
C8_FailedRequestRolledBack ==
    [][/\ \A k \in DOMAIN reqs' \ DOMAIN reqs :
             reqs'[k].id \notin DOMAIN responses
       /\ \A k \in DOMAIN reqs :
             /\ (reqs[k].st = "registered" /\ reqs'[k].st = "failed") =>
                   /\ chSend' = chSend
                   /\ responses' = MapDel(responses, reqs[k].id)
                   /\ k \notin Range(responses')
             /\ reqs[k].st = "failed" =>
                   /\ k \notin Range(responses')
                   /\ CallsOf(calls', k) = CallsOf(calls, k)]_vars

\* A Response carrying the id of a failed Request arrived after the failure,
\* and its callback has not been invoked.
C8_Witness ==
    \E k \in DOMAIN reqs :
        /\ reqs[k].st = "failed"
        /\ reqs[k].late > 0
        /\ CallsOf(calls, k) = <<>>
        /\ k \notin Range(responses)

\* C9 (as claimed): with no Notify call, once the Request calls made so far
\* have returned the counter has advanced by their number.
C9_CounterAdvancesPerCall ==
    (pc[1] = "idle" /\ ncalls = Cardinality(DOMAIN reqs))
        => mid = InitMid + ncalls

\* C9 (amended): with no Notify call, the counter has advanced by the number
\* of Request calls whose encoding succeeded; a call that fails with an
\* encoding error leaves it alone.
C9_CounterAdvancesPerEncodedRequest ==
    ncalls = Cardinality(DOMAIN reqs)
        => mid = InitMid + Cardinality({k \in DOMAIN reqs : Live(k)})

\* Two Request calls have returned, one failed and one sent.
C9_Witness ==
    /\ pc[1] = "idle"
    /\ ncalls = Cardinality(DOMAIN reqs)
    /\ \E k \in DOMAIN reqs : reqs[k].st = "failed"
    /\ \E k \in DOMAIN reqs : reqs[k].st = "sent"

\* C10 (as claimed): once the connector is closed the writer has stopped and
\* no response or event callback is invoked any more.
C10_ClosedIsTerminal ==
    /\ [](ClosedAfterOpen => writer = "done")
    /\ [][ClosedAfterOpen => calls' = calls]_vars

\* Ids taken by the calls encoded so far: Requests and enqueued Notifys.
EncodedCalls == Cardinality({k \in DOMAIN reqs : Live(k)}) + nNotifyOk

\* C11 (as claimed): a Notify call leaves the message-id counter and the
\* Pending-Response registry as it found them.
C11_NotifyLeavesCounter ==
    [][(ncalls' = ncalls + 1 /\ DOMAIN reqs' = DOMAIN reqs)
          => (mid' = mid /\ responses' = responses)]_vars

\* C11 (amended): a Notify call creates no registry entry and enqueues at
\* most its own frame, but a Notify whose encoding succeeds advances the
\* counter by one like a Request: the counter is InitMid plus the number of
\* Request and Notify calls encoded so far, and that is the id a Request
\* takes when it registers.
C11_NotifyConsumesId ==
    [][/\ (ncalls' = ncalls + 1 /\ DOMAIN reqs' = DOMAIN reqs) =>
             /\ responses' = responses
             /\ chSend' = chSend
             /\ mid' - mid = nNotifyOk' - nNotifyOk
       /\ frame'[1].mtype = "Notify" => frame'[1].id = 0
       /\ mid' = InitMid + EncodedCalls'
       /\ \A k \in DOMAIN reqs' \ DOMAIN reqs :
             reqs'[k].id = InitMid + EncodedCalls]_vars

\* The first Request, made after an enqueued Notify, was sent with the
\* second id.
C11_Witness ==
    /\ nNotifyOk = 1
    /\ \E k \in DOMAIN reqs :
          /\ reqs[k].st = "sent"
          /\ reqs[k].id = InitMid + 1
          /\ Cardinality(DOMAIN reqs) = 1

\* C12: Run called with no handshake payload configured returns the error
\* "handshake not defined" at once: it dials no transport, starts no writer,
\* enqueues nothing and changes no field of the Connector; the Connector is
\* still closed, and stays as Run left it.
C12_RunWithoutHandshakeFails ==
    /\ [][(pc[RunT] = "idle" /\ pc'[RunT] # "idle" /\ handshakeData = "nil") =>
             /\ pc'[RunT] = "returned"
             /\ runErr' = "ErrHandshakeNotDefined"
             /\ UNCHANGED <<conn, connecting, writer, chSend, mid, responses,
                            events, handshakeData, connectedCallback, hb>>
             /\ conn' = "nil" /\ writer' = "off" /\ ~connecting']_vars
    /\ [](runErr = "ErrHandshakeNotDefined" =>
             (conn = "nil" /\ writer = "off" /\ IsClosed /\ nread = 0))

\* Run has failed for want of a handshake payload while an event handler
\* was registered.
C12_Witness ==
    /\ pc[RunT] = "returned"
    /\ runErr = "ErrHandshakeNotDefined"
    /\ handshakeData = "nil"
    /\ events # EmptyMap

\* Run has returned the read error from a connector that is closed, with the
\* transport closed and the writer stopped.
ReturnedReadError ==
    /\ pc[RunT] = "returned" /\ runErr = "ErrRead"
    /\ conn = "closed" /\ writer = "done" /\ IsClosed

\* C13: when a read fails on an open connection with no explicit Close()
\* under way, read closes the transport and leaves its loop for good; unless
\* the application starts a Close() of its own meanwhile, the writer takes
\* the die signal and stops, IsClosed() becomes true and Run returns the
\* read error.
C13_ReadFailureIsFatal ==
    /\ [][(ioErr' /\ ~ioErr) =>
             (conn' = "closed" /\ pc'[RunT] = "close_signal" /\ ret' = "return")]_vars
    /\ [](ioErr => pc[RunT] \in {"close_signal", "close_flag", "returned"})
    /\ (ioErr /\ ~explicitClose) ~> (explicitClose \/ ReturnedReadError)

\* Run returned the error of a read that failed by itself; the application
\* never called Close() on the open connection.
C13_Witness ==
    /\ ioErr /\ ~explicitClose
    /\ ReturnedReadError
    /\ nread > 0

\* processMessage finds the callback cb for message p.
handlerOf(p) ==
    IF p.mtype = "Push" THEN eventHandler(p.route) ELSE responseHandler(p.id)

\* A step leaves the Connector, and the log of callback invocations, as they
\* were.
NoSideEffect ==
    /\ calls' = calls
    /\ UNCHANGED <<responses, events, mid, chSend, connecting, conn, writer,
                   exit, runErr, handshakeData, connectedCallback, hb>>

\* C14: a Push whose route has no handler, and a Response whose id is not in
\* the registry, is dropped: processing it invokes no callback and leaves the
\* registries, the counter, the outbound queue, the lifecycle flag, the
\* transport and the writer as they were, and the loop goes on to the next
\* packet.  A message that does have a handler is delivered whatever was
\* dropped before it: its callback is invoked once with its payload.
C14_UnmatchedMessageDropped ==
    OnPacket =>
        \A p \in DataPackets :
            p.wellformed =>
                /\ ENABLED ProcessDataOf(p)
                /\ unmatched(p) => ~ENABLED (ProcessDataOf(p) /\ ~NoSideEffect)
                /\ ~unmatched(p) =>
                      ~ENABLED (ProcessDataOf(p)
                                  /\ calls' # Append(calls, <<handlerOf(p), p.data>>))

\* A Response with id i was dropped, no Request being registered under i (the
\* one that took i had failed), and a later Response with id i was delivered
\* to the Request that took i next.
C14_Witness ==
    \E j, k \in DOMAIN reqs :
        /\ reqs[k].st = "failed" /\ reqs[k].late = 2
        /\ reqs[j].st = "sent" /\ reqs[j].id = reqs[k].id
        /\ Len(reqs[j].got) = 1
        /\ CallsOf(calls, j) = <<<<j, reqs[j].got[1]>>>>
        /\ nread = 2 /\ pending = 0

\* C15: Close() on a Connector that was never opened, or that is closed, is a
\* no-op: the call returns at its guard, having changed nothing (the
\* transport is not closed, nothing is sent on die), and its return is never
\* blocked; a Close() goes past the guard only while c.connecting is set, and
\* a Connector that was never opened never has it set.
C15_CloseIsNoOpWhenClosed ==
    /\ [][\A t \in Callers :
             /\ (pc[t] = "idle" /\ pc'[t] = "close_return") =>
                   /\ IsClosed
                   /\ UNCHANGED <<exit, progVars>>
                   /\ UNCHANGED histVars
             /\ (pc[t] = "idle" /\ pc'[t] = "close_signal") => ~IsClosed
             /\ (pc[t] = "close_return" /\ pc'[t] # "close_return") =>
                   /\ pc'[t] = "idle"
                   /\ UNCHANGED <<exit, progVars>>
                   /\ UNCHANGED histVars]_vars
    /\ [](conn = "nil" => (IsClosed /\ dieSends = 0 /\ ~explicitClose))
    /\ [](\A t \in Callers :
             /\ (Running /\ pc[t] = "close_return") => ENABLED CloseReturn(t)
             /\ (Running /\ pc[t] = "idle" /\ IsClosed) =>
                   ENABLED (CloseBegin(t) /\ pc'[t] = "close_return"))

\* The application's Close() is returning at its guard on a Connector that
\* an earlier Close() closed.
C15_Witness ==
    /\ pc[1] = "close_return"
    /\ explicitClose /\ ClosedAfterOpen /\ writer = "done"

\* The Request call with callback k has registered and no Response has yet
\* been processed for it.
Awaiting(k) ==
    reqs[k].st \in {"registered", "encoded", "sent"} /\ reqs[k].got = <<>>

\* C16 (as claimed): with concurrent callers, no two Requests awaiting their
\* Response carry the same id, and each of them still has its own callback
\* registered under the id its message carries.
C16_ConcurrentRequestsDistinctIds ==
    /\ \A j, k \in DOMAIN reqs :
          (j # k /\ Awaiting(j) /\ Awaiting(k)) => reqs[j].id # reqs[k].id
    /\ \A k \in DOMAIN reqs :
          Awaiting(k) => responseHandler(reqs[k].id) = k

\* C17: chSend holds the frames enqueued and not yet written, in the order
\* they were enqueued; every write takes the frame at its head, which is the
\* next one in enqueue order, whoever produced it; a write on a closed
\* transport fails and is still only a write: the writer keeps running and can
\* take the next frame.  The writer stops only by taking the die signal from
\* a Close().
C17_WriterKeepsOrder ==
    /\ [](/\ enq = wrote + Len(chSend)
          /\ \A i \in 1 .. Len(chSend) : chSend[i].seq = wrote + i - 1)
    /\ [][wrote' # wrote =>
             /\ wrote' = wrote + 1
             /\ Head(chSend).seq = wrote
             /\ chSend' = Tail(chSend)
             /\ writer = "run" /\ writer' = "run"]_vars
    /\ []((Running /\ writer = "run" /\ chSend # <<>>) => ENABLED WriterWrite)
    /\ [][writer' # writer =>
             \/ writer = "off" /\ writer' = "run"
             \/ /\ writer = "run" /\ writer' = "done"
                /\ \E t \in Threads :
                      pc[t] = "close_signal" /\ pc'[t] = "close_flag"]_vars

\* The handshake, a handshake-ack, a heartbeat and a Request have all been
\* written and the writer is still running on a transport that read's
\* Close() has closed.
C17_Witness ==
    /\ wrote = enq /\ wrote >= 4
    /\ ackEnq >= 1 /\ hbEnq >= 1
    /\ \E k \in DOMAIN reqs : reqs[k].st = "sent"
    /\ conn = "closed" /\ writer = "run"

\* Heartbeat goroutines that have been started and have not returned.
LiveHeartbeats == hb["start"] + hb["startbad"] + hb["wait"] + hb["send"]

\* C18 (as claimed): there is never more than one heartbeat goroutine, and
\* never more than one handshake-ack is enqueued, however many Handshake
\* packets are processed (all of them with a positive heartbeat interval).
C18_OneHeartbeatScheduler ==
    (Running /\ hb["startbad"] = 0) =>
        /\ LiveHeartbeats <= 1
        /\ HeartbeatTasks <= 1
        /\ ackEnq <= 1

\* C19 (as claimed): once the connection is closed, every heartbeat goroutine
\* eventually returns (or the process has ended).
C19_HeartbeatTerminatesAfterClose ==
    ClosedAfterOpen ~> (~Running \/ LiveHeartbeats = 0)

\* C20 (as claimed): after a handshake response with code 200, whatever its
\* heartbeat interval (positive, 0, negative, or absent and so decoded as 0),
\* the host process keeps running, short of a Kick or a refused handshake.
C20_Handshake200AnyInterval ==
    (hs200 > 0 /\ ~badCode /\ ~kicked) => Running

====
